---- MODULE Spec2Model ----
(***************************************************************************)
(* Model of the ActivityGraph dashboard component                          *)
(* (src/components/Dashboard/ActivityGraph.tsx).                           *)
(*                                                                         *)
(* The component reads a snapshot {timelineData, activityFeed,             *)
(* totalPoints, isLoading} from the shared dashboard hook and, on every    *)
(* render, derives chartData from it and chooses what to show: the         *)
(* skeleton, the "No Timeline Data" panel or the line chart.               *)
(*                                                                         *)
(* Optional values (a field or object that may be undefined) are modelled  *)
(* as sequences of length 0 or 1: None is undefined, Some(v) is v.         *)
(* A calendar date "YYYY-MM-DD" is the record of its three numbers, and a  *)
(* timestamp "YYYY-MM-DDTHH:MM:SSZ" the record of its date and time parts. *)
(***************************************************************************)
EXTENDS Integers, Sequences, FiniteSets, TLC

\* ------------------------------------------------------------------ bounds
\* The most records (feed items plus timeline rows) a snapshot of the hook holds.
MaxItems == 3

\* ------------------------------------------------------------------ values
None == <<>>
Some(v) == <<v>>
IsSome(o) == Len(o) = 1
Val(o) == o[1]

Dates ==
  { [year |-> 2024, month |-> 12, day |-> 31],
    [year |-> 2025, month |-> 1,  day |-> 1],
    [year |-> 2025, month |-> 1,  day |-> 2] }

Times == {"09:30:00Z"}

Timestamps == [date : Dates, time : Times]

ItemTypes == {"activity", "redemption"}

PointsChangeValues == {-3, 0, 5}

FeedItemValues ==
  [timestamp : Timestamps, type : ItemTypes, points_change : PointsChangeValues]

\* The optional fields of a timeline row: all missing, earnings only,
\* redemptions only, both.
RowFieldValues ==
  { [points_earned |-> None,    points_redeemed |-> None,    redemptions_count |-> None],
    [points_earned |-> Some(5), points_redeemed |-> None,    redemptions_count |-> None],
    [points_earned |-> None,    points_redeemed |-> Some(8), redemptions_count |-> Some(2)],
    [points_earned |-> Some(5), points_redeemed |-> Some(8), redemptions_count |-> Some(1)] }

TimelineRowValues ==
  { [date |-> d, points_earned |-> f.points_earned,
     points_redeemed |-> f.points_redeemed,
     redemptions_count |-> f.redemptions_count] : d \in Dates, f \in RowFieldValues }

TotalPointsValues == {None, Some(0), Some(7)}

SeqsUpTo(S, n) == UNION {[1..k -> S] : k \in 0..n}

\* ------------------------------------------------------------------ helpers
\* x || 0 for an optional number
OrZero(o) == IF IsSome(o) /\ Val(o) # 0 THEN Val(o) ELSE 0

Abs(n) == IF n < 0 THEN -n ELSE n

MonthShort ==
  <<"Jan", "Feb", "Mar", "Apr", "May", "Jun",
    "Jul", "Aug", "Sep", "Oct", "Nov", "Dec">>

\* formatDate: the label keeps the month and the day and drops the year.
formatDate(date) == [month |-> MonthShort[date.month], day |-> date.day]

\* new Date("YYYY-MM-DD").getTime() is the UTC midnight that starts the date,
\* in milliseconds from 1970-01-01. The model counts it in whole days (the
\* millisecond count, 86400000 times this, is beyond TLC's integers).
DaysFromCivil(y, m, d) ==
  LET yy  == IF m <= 2 THEN y - 1 ELSE y
      era == yy \div 400
      yoe == yy - era * 400
      mp  == IF m > 2 THEN m - 3 ELSE m + 9
      doy == (153 * mp + 2) \div 5 + d - 1
      doe == yoe * 365 + yoe \div 4 - yoe \div 100 + doy
  IN  era * 146097 + doe - 719468

getTime(date) == DaysFromCivil(date.year, date.month, date.day)

\* item.timestamp.split('T')[0]
dateKey(item) == item.timestamp.date

\* ------------------------------------------------------------------ feed branch
\* IsEarning without the test of the sign.
IsEarningAnySign(item) == item.type = "activity"

IsEarning(item) == item.type = "activity" /\ item.points_change > 0

IsRedemption(item) == item.type = "redemption" /\ item.points_change < 0

NewBucket(key) ==
  [points |-> 0, activities |-> 0, redemptions |-> 0, redeemed |-> 0, date |-> key]

HasBucket(buckets, key) == \E i \in 1..Len(buckets) : buckets[i].date = key

\* The effect of one feed item on its bucket.
Count(bucket, item) ==
  IF IsEarning(item)
  THEN [bucket EXCEPT !.points = @ + item.points_change, !.activities = @ + 1]
  ELSE IF IsRedemption(item)
  THEN [bucket EXCEPT !.redeemed = @ + Abs(item.points_change), !.redemptions = @ + 1]
  ELSE bucket

\* AddItem with the bucket created inside the two counting branches: an item
\* that is not counted leaves no bucket behind.
AddItemIfCounted(buckets, item) ==
  LET key  == dateKey(item)
      with == IF HasBucket(buckets, key) \/ ~(IsEarning(item) \/ IsRedemption(item))
              THEN buckets
              ELSE Append(buckets, NewBucket(key))
  IN  [i \in 1..Len(with) |->
         IF with[i].date = key THEN Count(with[i], item) ELSE with[i]]

\* One pass of the forEach: the bucket of the item's date is created when it
\* is missing, whatever the item is, and then the item is counted.
\* dailyData is kept in insertion order, the order of Object.values.
AddItem(buckets, item) ==
  LET key  == dateKey(item)
      with == IF HasBucket(buckets, key) THEN buckets
              ELSE Append(buckets, NewBucket(key))
  IN  [i \in 1..Len(with) |->
         IF with[i].date = key THEN Count(with[i], item) ELSE with[i]]

RECURSIVE GroupFrom(_, _, _)
GroupFrom(feed, i, buckets) ==
  IF i > Len(feed) THEN buckets
  ELSE GroupFrom(feed, i + 1, AddItem(buckets, feed[i]))

DailyData(feed) == GroupFrom(feed, 1, <<>>)

\* ------------------------------------------------------------------ sort
\* Array.prototype.sort with the comparator getTime(a.date) - getTime(b.date):
\* ascending by time, and stable (rows of equal time keep their order).
RECURSIVE InsertByDate(_, _)
InsertByDate(sorted, x) ==
  IF sorted = <<>> THEN <<x>>
  ELSE IF getTime(x.date) - getTime(Head(sorted).date) < 0
       THEN <<x>> \o sorted
       ELSE <<Head(sorted)>> \o InsertByDate(Tail(sorted), x)

RECURSIVE SortFrom(_, _, _)
SortFrom(rows, i, sorted) ==
  IF i > Len(rows) THEN sorted
  ELSE SortFrom(rows, i + 1, InsertByDate(sorted, rows[i]))

\* SortByDate with the sort left out.
Unsorted(rows) == rows

SortByDate(rows) == SortFrom(rows, 1, <<>>)

\* ------------------------------------------------------------------ walks
RECURSIVE FeedWalk(_, _, _)
FeedWalk(days, i, runningTotal) ==
  IF i > Len(days) THEN <<>>
  ELSE LET day       == days[i]
           netChange == day.points - day.redeemed
           summed    == runningTotal + netChange
           clamped   == IF summed < 0 THEN 0 ELSE summed
       IN  << [name        |-> formatDate(day.date),
               Points      |-> clamped,
               Daily       |-> day.points,
               Redeemed    |-> day.redeemed,
               Net         |-> netChange,
               Redemptions |-> day.redemptions,
               rawDate     |-> day.date,
               dataSource  |-> "activity-feed"] >>
           \o FeedWalk(days, i + 1, clamped)

RECURSIVE FeedWalkUnclamped(_, _, _)
FeedWalkUnclamped(days, i, runningTotal) ==
  IF i > Len(days) THEN <<>>
  ELSE LET day       == days[i]
           netChange == day.points - day.redeemed
           summed    == runningTotal + netChange
       IN  << [name        |-> formatDate(day.date),
               Points      |-> summed,
               Daily       |-> day.points,
               Redeemed    |-> day.redeemed,
               Net         |-> netChange,
               Redemptions |-> day.redemptions,
               rawDate     |-> day.date,
               dataSource  |-> "activity-feed"] >>
           \o FeedWalkUnclamped(days, i + 1, summed)

\* ChartDataFromFeed without the clamp of the running total.
ChartDataFromFeedUnclamped(days) == FeedWalkUnclamped(days, 1, 0)

ChartDataFromFeed(days) == FeedWalk(days, 1, 0)

\* The fallback walk over the timeline rows: no clamp. The earlier revision of
\* the component, which reads the timeline only, holds the same walk.
RECURSIVE TimelineWalk(_, _, _)
TimelineWalk(rows, i, runningTotal) ==
  IF i > Len(rows) THEN <<>>
  ELSE LET item     == rows[i]
           dailyNet == OrZero(item.points_earned) - OrZero(item.points_redeemed)
           summed   == runningTotal + dailyNet
       IN  << [name        |-> formatDate(item.date),
               Points      |-> summed,
               Daily       |-> OrZero(item.points_earned),
               Redeemed    |-> OrZero(item.points_redeemed),
               Net         |-> dailyNet,
               Redemptions |-> OrZero(item.redemptions_count),
               rawDate     |-> item.date] >>
           \o TimelineWalk(rows, i + 1, summed)

RECURSIVE TimelineWalkClamped(_, _, _)
TimelineWalkClamped(rows, i, runningTotal) ==
  IF i > Len(rows) THEN <<>>
  ELSE LET item     == rows[i]
           dailyNet == OrZero(item.points_earned) - OrZero(item.points_redeemed)
           summed   == runningTotal + dailyNet
           clamped  == IF summed < 0 THEN 0 ELSE summed
       IN  << [name        |-> formatDate(item.date),
               Points      |-> clamped,
               Daily       |-> OrZero(item.points_earned),
               Redeemed    |-> OrZero(item.points_redeemed),
               Net         |-> dailyNet,
               Redemptions |-> OrZero(item.redemptions_count),
               rawDate     |-> item.date] >>
           \o TimelineWalkClamped(rows, i + 1, clamped)

\* ChartDataWithProgression with the clamp of the feed branch.
ChartDataWithProgressionClamped(rows) == TimelineWalkClamped(rows, 1, 0)

ChartDataWithProgression(rows) == TimelineWalk(rows, 1, 0)

\* ------------------------------------------------------------------ reconciliation
CalculatedFinal(points) ==
  IF Len(points) = 0 THEN 0 ELSE points[Len(points)].Points

Adjustment(points, correctTotalPoints) ==
  correctTotalPoints - CalculatedFinal(points)

\* Adjust with the test adjustment > 0 in place of Math.abs(adjustment) > 0.
AdjustUpwardsOnly(points, correctTotalPoints) ==
  LET adjustment == Adjustment(points, correctTotalPoints)
  IN  IF adjustment > 0
      THEN [i \in 1..Len(points) |->
              [points[i] EXCEPT !.Points = @ + adjustment]]
      ELSE points

\* Adjust with the adjustment added to the last point only.
AdjustLastOnly(points, correctTotalPoints) ==
  LET adjustment == Adjustment(points, correctTotalPoints)
  IN  IF Abs(adjustment) > 0
      THEN [i \in 1..Len(points) |->
              IF i = Len(points)
              THEN [points[i] EXCEPT !.Points = @ + adjustment]
              ELSE points[i]]
      ELSE points

Adjust(points, correctTotalPoints) ==
  LET adjustment == Adjustment(points, correctTotalPoints)
  IN  IF Abs(adjustment) > 0
      THEN [i \in 1..Len(points) |->
              [points[i] EXCEPT !.Points = @ + adjustment]]
      ELSE points

\* ------------------------------------------------------------------ derivation
FeedLength(feedOpt) == IF IsSome(feedOpt) THEN Len(Val(feedOpt).feed) ELSE 0

TimelineLength(tlOpt) == IF IsSome(tlOpt) THEN Len(Val(tlOpt).timeline) ELSE 0

\* UsesFeed with the test of the length left out: activityFeed?.feed
UsesFeedIfPresent(feedOpt) == IsSome(feedOpt)

UsesFeed(feedOpt) == FeedLength(feedOpt) > 0

UsesTimeline(feedOpt, tlOpt) == ~UsesFeed(feedOpt) /\ TimelineLength(tlOpt) > 0

\* The derivation, stage by stage; each stage is the empty sequence where
\* the early returns skip it.
\* dailyData: the buckets of the feed, in insertion order.
DailyDataOf(feedOpt) ==
  IF UsesFeed(feedOpt) THEN DailyData(Val(feedOpt).feed) ELSE <<>>

\* sortedDays of the buckets, or sortedTimeline of the rows.
SortedOf(feedOpt, tlOpt, buckets) ==
  IF UsesFeed(feedOpt) THEN SortByDate(buckets)
  ELSE IF UsesTimeline(feedOpt, tlOpt) THEN SortByDate(Val(tlOpt).timeline)
  ELSE <<>>

\* chartDataFromFeed or chartDataWithProgression, before the adjustment.
ProgressionOf(feedOpt, tlOpt, rows) ==
  IF UsesFeed(feedOpt) THEN ChartDataFromFeed(rows)
  ELSE IF UsesTimeline(feedOpt, tlOpt) THEN ChartDataWithProgression(rows)
  ELSE <<>>

\* The value of chartData, from the points before the adjustment.
Reconciled(feedOpt, tlOpt, points, total) ==
  IF ~UsesFeed(feedOpt) /\ TimelineLength(tlOpt) = 0 THEN <<>>
  ELSE Adjust(points, OrZero(total))

\* chartData as a function of the snapshot.
ChartData(feedOpt, tlOpt, total) ==
  LET buckets == DailyDataOf(feedOpt)
      rows    == SortedOf(feedOpt, tlOpt, buckets)
      points  == ProgressionOf(feedOpt, tlOpt, rows)
  IN  Reconciled(feedOpt, tlOpt, points, total)

\* What the component returns once loading is over.
Panel(tlOpt, data) ==
  IF ~IsSome(tlOpt) \/ Len(data) = 0 THEN "empty" ELSE "chart"

\* ------------------------------------------------------------------ state
VARIABLES
  isLoading,      \* the hook's loading flag
  timelineData,   \* None or Some([timeline |-> rows])
  activityFeed,   \* None or Some([feed |-> items])
  totalPoints,    \* None or Some(n)
  dailyData,      \* the buckets of the last render, in insertion order
  sorted,         \* sortedDays or sortedTimeline of the last render
  progression,    \* the chart points of the last render before the adjustment
  chartData,      \* the chart points of the last render
  view            \* "skeleton", "empty" or "chart"

vars == <<isLoading, timelineData, activityFeed, totalPoints,
          dailyData, sorted, progression, chartData, view>>

ActivityFeedValues(n) ==
  {None} \cup {Some([feed |-> f]) : f \in SeqsUpTo(FeedItemValues, n)}

TimelineDataValues(n) ==
  {None} \cup {Some([timeline |-> t]) : t \in SeqsUpTo(TimelineRowValues, n)}

\* The snapshots the hook can hold.
Snapshot(feedOpt, tlOpt, total) ==
  /\ feedOpt \in ActivityFeedValues(MaxItems)
  /\ tlOpt \in TimelineDataValues(MaxItems - FeedLength(feedOpt))
  /\ total \in TotalPointsValues

\* The first render happens while the hook is loading its snapshot: the
\* component returns the skeleton before it reads any of it.
Init ==
  /\ Snapshot(activityFeed, timelineData, totalPoints)
  /\ isLoading = TRUE
  /\ dailyData = <<>>
  /\ sorted = <<>>
  /\ progression = <<>>
  /\ chartData = <<>>
  /\ view = "skeleton"

\* The hook ends loading and the component renders the snapshot: the
\* derivation and the choice of panel.
FinishLoading ==
  /\ isLoading
  /\ isLoading' = FALSE
  /\ dailyData' = DailyDataOf(activityFeed)
  /\ sorted' = SortedOf(activityFeed, timelineData, dailyData')
  /\ progression' = ProgressionOf(activityFeed, timelineData, sorted')
  /\ chartData' = Reconciled(activityFeed, timelineData, progression', totalPoints)
  /\ view' = Panel(timelineData, chartData')
  /\ UNCHANGED <<activityFeed, timelineData, totalPoints>>

\* The hook starts a refresh and the component renders the skeleton.
StartLoading ==
  /\ ~isLoading
  /\ isLoading' = TRUE
  /\ dailyData' = <<>>
  /\ sorted' = <<>>
  /\ progression' = <<>>
  /\ chartData' = <<>>
  /\ view' = "skeleton"
  /\ UNCHANGED <<activityFeed, timelineData, totalPoints>>

Next == FinishLoading \/ StartLoading

Spec == Init /\ [][Next]_vars

\* ------------------------------------------------------------------ properties
Rendered == ~isLoading

\* The feed holds at least one item.
FeedGiven == IsSome(activityFeed) /\ Len(Val(activityFeed).feed) > 0

\* The timeline holds at least one row.
TimelineGiven == IsSome(timelineData) /\ Len(Val(timelineData).timeline) > 0

FeedBranch == Rendered /\ FeedGiven

TimelineBranch == Rendered /\ ~FeedGiven /\ TimelineGiven

CorrectTotal == IF IsSome(totalPoints) THEN Val(totalPoints) ELSE 0

Feed == Val(activityFeed).feed

Max0(n) == IF n < 0 THEN 0 ELSE n

\* dataSource as the tooltip reads it: data?.dataSource || 'timeline'
DataSourceOf(point) ==
  IF "dataSource" \in DOMAIN point THEN point.dataSource ELSE "timeline"

Ascending(points) ==
  \A i \in 2..Len(points) :
    getTime(points[i - 1].rawDate) <= getTime(points[i].rawDate)

StrictlyAscending(points) ==
  \A i \in 2..Len(points) :
    getTime(points[i - 1].rawDate) < getTime(points[i].rawDate)

DistinctDates(rows) ==
  \A i, j \in 1..Len(rows) : i # j => rows[i].date # rows[j].date

\* C1: whenever the derived sequence is non-empty, the Points of its last
\* point is totalPoints, or 0 when totalPoints is undefined.
C1_LastPointIsTotal ==
  Rendered /\ chartData # <<>> =>
    chartData[Len(chartData)].Points = CorrectTotal

\* The adjustment was needed, downwards, and the total is defined.
C1_Witness ==
  /\ Rendered /\ Len(chartData) >= 2
  /\ IsSome(totalPoints) /\ Val(totalPoints) > 0
  /\ progression[Len(progression)].Points > Val(totalPoints)

\* C2, as stated: the derived sequence is strictly ascending by date in both
\* branches, also when several rows carry the same date.
C2_AlwaysStrictlyAscending ==
  Rendered => StrictlyAscending(chartData)

\* C2, amended: the derived sequence is ascending by date; it is strictly
\* ascending in the feed branch, and in the timeline branch exactly when no
\* two rows carry the same date.
C2_AscendingByDate ==
  Rendered =>
    /\ Ascending(chartData)
    /\ FeedGiven => StrictlyAscending(chartData)
    /\ ~FeedGiven /\ TimelineGiven =>
         (StrictlyAscending(chartData) <=> DistinctDates(Val(timelineData).timeline))

\* Three days arrive latest first and are put in order.
C2_Witness ==
  /\ FeedBranch /\ Len(chartData) = 3
  /\ getTime(dailyData[1].date) > getTime(dailyData[2].date)
  /\ getTime(dailyData[2].date) > getTime(dailyData[3].date)

\* C3: a non-empty feed is the only source: the derived sequence is marked
\* 'activity-feed' and is what it is with timelineData absent, whatever
\* timelineData is (absent, empty or with rows). The timeline is the source
\* only when the feed is empty or absent, with the same result for both.
\* With neither feed items nor timeline rows the derived sequence is empty.
C3_SourceSelection ==
  Rendered =>
    /\ FeedGiven =>
         /\ \A i \in 1..Len(chartData) : DataSourceOf(chartData[i]) = "activity-feed"
         /\ timelineData # None =>
              chartData = ChartData(activityFeed, None, totalPoints)
    /\ ~FeedGiven /\ TimelineGiven =>
         /\ \A i \in 1..Len(chartData) : DataSourceOf(chartData[i]) = "timeline"
         /\ Len(chartData) = Len(Val(timelineData).timeline)
         /\ activityFeed # None =>
              chartData = ChartData(None, timelineData, totalPoints)
    /\ ~FeedGiven /\ ~TimelineGiven =>
         chartData = <<>>

\* Feed and timeline are both there and would give different sequences.
C3_Witness ==
  /\ FeedBranch /\ TimelineGiven
  /\ Len(chartData) # Len(Val(timelineData).timeline)

\* C4: after loading, the empty-state panel is shown exactly when the
\* derived sequence is empty, and the line chart whenever it is not.
C4_PanelFollowsSequence ==
  Rendered =>
    /\ view = "empty" <=> chartData = <<>>
    /\ view = "chart" <=> chartData # <<>>

\* C5: in the feed branch, with totalPoints >= 0, no point of the derived
\* sequence has negative Points.
C5_PointsNeverNegative ==
  FeedBranch /\ IsSome(totalPoints) /\ Val(totalPoints) >= 0 =>
    \A i \in 1..Len(chartData) : chartData[i].Points >= 0

\* C6: in the feed branch the running total before the adjustment is never
\* negative, and after each bucket it is max(0, previous + points - redeemed).
C6_ClampedRunningTotal ==
  FeedBranch =>
    /\ Len(progression) = Len(sorted)
    /\ \A i \in 1..Len(progression) :
         LET previous == IF i = 1 THEN 0 ELSE progression[i - 1].Points
         IN  /\ progression[i].Points >= 0
             /\ progression[i].Points =
                  Max0(previous + sorted[i].points - sorted[i].redeemed)

\* The first day is clamped to zero and the next day earns from zero.
C6_Witness ==
  /\ FeedBranch /\ Len(progression) >= 2
  /\ sorted[1].points - sorted[1].redeemed < 0
  /\ progression[1].Points = 0
  /\ sorted[2].points > 0
  /\ progression[2].Points = sorted[2].points

DateKeys(feed) == {dateKey(feed[i]) : i \in 1..Len(feed)}

RemoveAt(seq, i) == [j \in 1..(Len(seq) - 1) |-> IF j < i THEN seq[j] ELSE seq[j + 1]]

Totals(points, activities, redeemed, redemptions) ==
  [points |-> points, activities |-> activities,
   redeemed |-> redeemed, redemptions |-> redemptions]

\* What the buckets hold for a date: zeros when the date has no bucket.
TotalsOn(buckets, date) ==
  IF \E i \in 1..Len(buckets) : buckets[i].date = date
  THEN LET b == buckets[CHOOSE i \in 1..Len(buckets) : buckets[i].date = date]
       IN  Totals(b.points, b.activities, b.redeemed, b.redemptions)
  ELSE Totals(0, 0, 0, 0)

\* What one feed item is to add to the totals of a date.
Contribution(item, date) ==
  IF dateKey(item) # date THEN Totals(0, 0, 0, 0)
  ELSE IF item.type = "activity" /\ item.points_change > 0
       THEN Totals(item.points_change, 1, 0, 0)
  ELSE IF item.type = "redemption" /\ item.points_change < 0
       THEN Totals(0, 0, 0 - item.points_change, 1)
  ELSE Totals(0, 0, 0, 0)

PlusTotals(a, b) ==
  Totals(a.points + b.points, a.activities + b.activities,
         a.redeemed + b.redeemed, a.redemptions + b.redemptions)

\* C7: against the same feed without it, an item that is neither an earning
\* nor a redemption changes the totals of no date; an earning adds its points
\* and one activity, a redemption its magnitude and one redemption, to the
\* totals of its own date only.
C7_Filtering ==
  FeedBranch =>
    \A i \in 1..Len(Feed) :
      LET without == DailyData(RemoveAt(Feed, i))
      IN  \A date \in DateKeys(Feed) :
            TotalsOn(dailyData, date) =
              PlusTotals(TotalsOn(without, date), Contribution(Feed[i], date))

\* One day holds a dropped activity, a dropped redemption and an earning.
C7_Witness ==
  /\ FeedBranch /\ Len(Feed) = 3 /\ Len(dailyData) = 1
  /\ \E i \in 1..3 : Feed[i].type = "activity" /\ Feed[i].points_change < 0
  /\ \E i \in 1..3 : Feed[i].type = "redemption" /\ Feed[i].points_change > 0
  /\ dailyData[1].activities = 1 /\ dailyData[1].points > 0

\* C8: in both branches the adjustment, totalPoints (0 if undefined) minus
\* the last Points before it, is added to the Points of every point, so the
\* differences between points are kept; every other field is left as it
\* was, and Net is Daily - Redeemed.
C8_UniformAdjustment ==
  Rendered /\ chartData # <<>> =>
    LET adjustment == CorrectTotal - progression[Len(progression)].Points
    IN  /\ Len(chartData) = Len(progression)
        /\ \A i \in 1..Len(chartData) :
             /\ chartData[i].Points = progression[i].Points + adjustment
             /\ chartData[i] = [progression[i] EXCEPT !.Points = chartData[i].Points]
             /\ chartData[i].Net = chartData[i].Daily - chartData[i].Redeemed
        /\ \A i, j \in 1..Len(chartData) :
             chartData[i].Points - chartData[j].Points =
               progression[i].Points - progression[j].Points

\* A curve of two different levels is shifted.
C8_Witness ==
  /\ Rendered /\ Len(chartData) >= 2
  /\ progression[1].Points # progression[2].Points
  /\ chartData[1].Points # progression[1].Points
  /\ chartData[1].Redeemed > 0

RECURSIVE SumNet(_, _, _)
\* The sum of points_earned - points_redeemed over rows[from..to], a missing
\* field counting as zero.
SumNet(rows, from, to) ==
  IF from > to THEN 0
  ELSE (IF IsSome(rows[from].points_earned) THEN Val(rows[from].points_earned) ELSE 0)
       - (IF IsSome(rows[from].points_redeemed) THEN Val(rows[from].points_redeemed) ELSE 0)
       + SumNet(rows, from + 1, to)

\* C9: in the timeline branch the Points of point i before the adjustment is
\* the unclamped sum of the daily nets of the date-sorted rows up to row i,
\* and after it totalPoints minus the daily nets of the rows after row i.
C9_TimelineRunningSum ==
  TimelineBranch =>
    /\ Len(progression) = Len(sorted)
    /\ Len(chartData) = Len(sorted)
    /\ \A i \in 1..Len(sorted) :
         /\ progression[i].Points = SumNet(sorted, 1, i)
         /\ chartData[i].Points = CorrectTotal - SumNet(sorted, i + 1, Len(sorted))

\* One row earns 5 and redeems 8 with totalPoints 0: -3 before, 0 after.
C9_Witness ==
  /\ TimelineBranch /\ Len(chartData) = 1
  /\ totalPoints = Some(0)
  /\ progression[1].Points = -3
  /\ chartData[1].Points = 0

Dropped(item) ==
  /\ ~(item.type = "activity" /\ item.points_change > 0)
  /\ ~(item.type = "redemption" /\ item.points_change < 0)

\* C10: the feed branch gives one point for each date key of the feed,
\* dropped items counted: a date of dropped items only has a point of zero
\* Daily, Redeemed, Net and Redemptions at the level of the day before (at
\* zero before the adjustment when it is the first day), and the derived
\* sequence of a non-empty feed is not empty.
C10_OnePointPerDateKey ==
  FeedBranch =>
    /\ chartData # <<>>
    /\ Len(chartData) = Cardinality(DateKeys(Feed))
    /\ \A key \in DateKeys(Feed) :
         \E i \in 1..Len(chartData) : chartData[i].rawDate = key
    /\ \A i \in 1..Len(chartData) :
         (\A k \in 1..Len(Feed) :
            dateKey(Feed[k]) = chartData[i].rawDate => Dropped(Feed[k])) =>
           /\ chartData[i].Daily = 0 /\ chartData[i].Redeemed = 0
           /\ chartData[i].Net = 0 /\ chartData[i].Redemptions = 0
           /\ i > 1 => chartData[i].Points = chartData[i - 1].Points
           /\ i = 1 => progression[i].Points = 0

\* A day of dropped items only follows a day of earnings.
C10_Witness ==
  /\ FeedBranch /\ Len(chartData) = 2
  /\ chartData[1].Daily > 0
  /\ chartData[2].Daily = 0 /\ chartData[2].Redeemed = 0
  /\ chartData[2].Points = chartData[1].Points
  /\ chartData[2].Points > 0

====
